---- MODULE Spec2Model ----
(***************************************************************************)
(* Model of app.py: the session-aware OHLCV resampler (resample_ohlcv) and *)
(* the /get_chart handler with its LRU result cache (resample_cache).      *)
(*                                                                         *)
(* Timestamps are minute-resolution.  A timestamp string                   *)
(* "%Y-%m-%d %H:%M:%S" is the tuple <<day, hour, minute>>; a parsed        *)
(* datetime is the number of minutes since day 0, 00:00.                   *)
(***************************************************************************)
EXTENDS Integers, Sequences, FiniteSets, TLC

\* ------------------------------------------------------------------ bounds
\* longest input slice handed to resample_ohlcv
MaxLen == 3

\* capacity of resample_cache, LRUCache(maxsize=200) scaled down
maxsize == 1

\* rows per batch read from a file, chunksize = 100000 scaled down
chunksize == 2

\* ------------------------------------------------------- generic helpers
Max(a, b) == IF a >= b THEN a ELSE b
Min(a, b) == IF a <= b THEN a ELSE b

RECURSIVE SeqMax(_, _)
SeqMax(s, f) == IF Len(s) = 1 THEN s[1][f] ELSE Max(s[1][f], SeqMax(Tail(s), f))

RECURSIVE SeqMin(_, _)
SeqMin(s, f) == IF Len(s) = 1 THEN s[1][f] ELSE Min(s[1][f], SeqMin(Tail(s), f))

RECURSIVE SeqSum(_, _)
SeqSum(s, f) == IF s = <<>> THEN 0 ELSE s[1][f] + SeqSum(Tail(s), f)

RECURSIVE Concat(_)
Concat(ss) == IF ss = <<>> THEN <<>> ELSE ss[1] \o Concat(Tail(ss))

RECURSIVE SetToSortedSeq(_)
SetToSortedSeq(S) ==
    IF S = {} THEN <<>>
    ELSE LET m == CHOOSE x \in S : \A y \in S : x <= y
         IN <<m>> \o SetToSortedSeq(S \ {m})

\* --------------------------------------------------------------- config
MinutesPerDay == 1440

\* TF_MAP with each pandas offset alias written as its length in minutes
\* ("1T" = 1, ..., "1H" = 60, "D" = one day)
TF_MAP ==
    ("1m" :> 1) @@ ("3m" :> 3) @@ ("5m" :> 5) @@ ("10m" :> 10) @@
    ("15m" :> 15) @@ ("30m" :> 30) @@ ("1h" :> 60) @@ ("1D" :> MinutesPerDay)

\* rule = TF_MAP.get(timeframe, "1T")
Rule(timeframe) == IF timeframe \in DOMAIN TF_MAP THEN TF_MAP[timeframe] ELSE 1

\* between_time("09:15", "15:30"), both ends included
SessionStart == 9 * 60 + 15
SessionEnd == 15 * 60 + 30

\* ------------------------------------------------- timestamp conversions
NaT == -1

\* pd.to_datetime(..., format='%Y-%m-%d %H:%M:%S', errors='coerce')
to_datetime(ts) ==
    IF Len(ts) = 3 /\ ts[2] \in 0..23 /\ ts[3] \in 0..59
    THEN ts[1] * MinutesPerDay + ts[2] * 60 + ts[3]
    ELSE NaT

DateOf(m) == m \div MinutesPerDay
TimeOf(m) == m % MinutesPerDay

\* .dt.strftime("%Y-%m-%d %H:%M:%S")
strftime(m) == <<DateOf(m), TimeOf(m) \div 60, TimeOf(m) % 60>>

\* pd.to_datetime(date).dt.strftime("%Y-%m-%d 00:00:00")
strftime_midnight(d) == <<d, 0, 0>>

\* ------------------------------------------------------- resample_ohlcv
\* df_slice['timestamp'] = pd.to_datetime(...); dropna(subset=['timestamp'])
RECURSIVE ParseAndDrop(_)
ParseAndDrop(df) ==
    IF df = <<>> THEN <<>>
    ELSE LET r == df[1]
             t == to_datetime(r.timestamp)
         IN (IF t = NaT THEN <<>>
             ELSE <<[timestamp |-> t, open |-> r.open, high |-> r.high,
                     low |-> r.low, close |-> r.close, volume |-> r.volume]>>)
            \o ParseAndDrop(Tail(df))

IsSortedByTs(s) == \A i \in 1..(Len(s) - 1) : s[i].timestamp <= s[i + 1].timestamp

\* sort_index left out: the rows stay in file order
sort_index_mut(df) == {df}

\* set_index("timestamp").sort_index(): the default sort kind is not stable,
\* so rows with equal timestamps may come out in any relative order
sort_index(df) ==
    LET n == Len(df)
        Perms == {p \in [1..n -> 1..n] : \A i, j \in 1..n : p[i] = p[j] => i = j}
    IN {s \in {[i \in 1..n |-> df[p[i]]] : p \in Perms} : IsSortedByTs(s)}

InSession(r) == TimeOf(r.timestamp) >= SessionStart /\ TimeOf(r.timestamp) <= SessionEnd

\* between_time left out: every row is kept
between_time_mut(df) == df

between_time(df) == SelectSeq(df, InSession)

\* "close":"first" in place of "close":"last"
agg_mut(rows, label) ==
    [timestamp |-> label,
     open |-> rows[1].open,
     high |-> SeqMax(rows, "high"),
     low |-> SeqMin(rows, "low"),
     close |-> rows[1].close,
     volume |-> SeqSum(rows, "volume")]

\* agg = {"open":"first","high":"max","low":"min","close":"last","volume":"sum"}
agg(rows, label) ==
    [timestamp |-> label,
     open |-> rows[1].open,
     high |-> SeqMax(rows, "high"),
     low |-> SeqMin(rows, "low"),
     close |-> rows[Len(rows)].close,
     volume |-> SeqSum(rows, "volume")]

Dates(df) == {DateOf(df[i].timestamp) : i \in 1..Len(df)}

\* the frame is not split by date
DayFrame_mut(df, d) == df

DayFrame(df, d) == LET OnDay(r) == DateOf(r.timestamp) = d IN SelectSeq(df, OnDay)

\* the 1m branch: rows unchanged, timestamps formatted
Format(df) ==
    [i \in 1..Len(df) |->
        [timestamp |-> strftime(df[i].timestamp), open |-> df[i].open,
         high |-> df[i].high, low |-> df[i].low, close |-> df[i].close,
         volume |-> df[i].volume]]

\* the 1D branch: groupby(index.date).agg(agg), keys ascending
GroupByDate(df) ==
    LET days == SetToSortedSeq(Dates(df))
    IN [k \in 1..Len(days) |-> agg(DayFrame(df, days[k]), strftime_midnight(days[k]))]

\* origin='9:15:00' parses to 09:15 of the day the request runs on
Origin(today) == today * MinutesPerDay + SessionStart

\* resample(rule, label="left", closed="left", origin=...): left edge of the bin
BinStart(m, rule, today) == m - ((m - Origin(today)) % rule)

\* day_df.resample(...).apply(agg).dropna(...): one row per non-empty bin
ResampleDay(day_df, rule, today) ==
    LET starts == SetToSortedSeq({BinStart(day_df[i].timestamp, rule, today) :
                                     i \in 1..Len(day_df)})
        InBin(b) == LET P(r) == BinStart(r.timestamp, rule, today) = b
                    IN SelectSeq(day_df, P)
    IN [k \in 1..Len(starts) |-> agg(InBin(starts[k]), starts[k])]

\* for _, day_df in df_slice.groupby(df_slice.index.date): parts.append(...)
Parts(df, rule, today) ==
    LET days == SetToSortedSeq(Dates(df))
    IN [k \in 1..Len(days) |-> ResampleDay(DayFrame(df, days[k]), rule, today)]

\* every result resample_ohlcv(df_slice, timeframe) can return
resample_ohlcv(df_slice, timeframe, today) ==
    IF df_slice = <<>> THEN {<<>>}
    ELSE UNION {
        LET df == between_time(sorted)
        IN IF timeframe = "1m" THEN {Format(df)}
           ELSE IF timeframe = "1D" THEN {GroupByDate(df)}
           ELSE {Format(res) :
                    res \in sort_index(Concat(Parts(df, Rule(timeframe), today)))}
        : sorted \in sort_index(ParseAndDrop(df_slice))}

\* ------------------------------------------------------------ the inputs
Candle(ts, o, h, l, c, v) ==
    [timestamp |-> ts, open |-> o, high |-> h, low |-> l, close |-> c, volume |-> v]

\* candles of one instrument: three consecutive minutes at the session open,
\* the next 3-minute bin, a second candle at 09:15, the session's last minute,
\* one minute before and one after the session, a second day, a bad timestamp
CandlePool ==
    { Candle(<<1, 9, 15>>, 100, 100, 100, 100, 1),
      Candle(<<1, 9, 16>>, 101, 102, 101, 102, 2),
      Candle(<<1, 9, 17>>, 102, 102, 101, 101, 3),
      Candle(<<1, 9, 18>>, 101, 103, 99, 99, 4),
      Candle(<<1, 9, 15>>, 105, 106, 104, 104, 5),
      Candle(<<1, 15, 30>>, 98, 98, 97, 97, 6),
      Candle(<<1, 15, 31>>, 90, 110, 90, 110, 7),
      Candle(<<2, 9, 14>>, 80, 120, 80, 120, 8),
      Candle(<<2, 9, 15>>, 95, 96, 94, 96, 9),
      Candle(<<>>, 70, 130, 70, 130, 10) }

Slices == UNION {[1..n -> CandlePool] : n \in 0..MaxLen}

Timeframes == DOMAIN TF_MAP

\* one value outside the enumerated set
RequestedTimeframes == Timeframes \cup {"2m"}

\* the request runs before or after the days the data are from
Todays == {0, 3}

\* --------------------------------------------------- strings and strikes
\* a string is the sequence of its characters
DigitVal ==
    ("0" :> 0) @@ ("1" :> 1) @@ ("2" :> 2) @@ ("3" :> 3) @@ ("4" :> 4) @@
    ("5" :> 5) @@ ("6" :> 6) @@ ("7" :> 7) @@ ("8" :> 8) @@ ("9" :> 9)

DigitChar == <<"0", "1", "2", "3", "4", "5", "6", "7", "8", "9">>

IsDigit(c) == c \in DOMAIN DigitVal

AllDigits(s) == s # <<>> /\ \A i \in 1..Len(s) : IsDigit(s[i])

\* int(strike) succeeds: decimal digits with an optional minus sign
IsIntLiteral(s) ==
    \/ AllDigits(s)
    \/ s # <<>> /\ s[1] = "-" /\ AllDigits(Tail(s))

RECURSIVE DigitsValue(_)
DigitsValue(s) ==
    IF s = <<>> THEN 0
    ELSE DigitsValue(SubSeq(s, 1, Len(s) - 1)) * 10 + DigitVal[s[Len(s)]]

\* int(strike)
int(s) == IF s[1] = "-" THEN 0 - DigitsValue(Tail(s)) ELSE DigitsValue(s)

RECURSIVE NatStr(_)
NatStr(n) ==
    IF n < 10 THEN <<DigitChar[n + 1]>>
    ELSE NatStr(n \div 10) \o <<DigitChar[(n % 10) + 1]>>

\* str(n)
str(n) == IF n < 0 THEN <<"-">> \o NatStr(0 - n) ELSE NatStr(n)

UpperTable == ("c" :> "C") @@ ("e" :> "E") @@ ("p" :> "P")

\* .upper()
upper(s) == [i \in 1..Len(s) |-> IF s[i] \in DOMAIN UpperTable THEN UpperTable[s[i]] ELSE s[i]]

LowerTable == ("18JUL24" :> "18jul24")

\* expiry.lower()
lower(e) == IF e \in DOMAIN LowerTable THEN LowerTable[e] ELSE e

\* ---------------------------------------------------------- symbol parser
OptTags == {<<"C", "E">>, <<"P", "E">>}

\* r'(\d{5})(CE|PE)' matches at position i
MatchAt(sym, i) ==
    /\ i + 6 <= Len(sym)
    /\ \A k \in 0..4 : IsDigit(sym[i + k])
    /\ <<sym[i + 5], sym[i + 6]>> \in OptTags

\* a row the pattern does not match gets NaN in both columns
NaN == <<"NaN">>

\* chunk['tradingsymbol'].str.extract(r'(\d{5})(CE|PE)'): the leftmost match
extract(sym) ==
    IF \E i \in 1..Len(sym) : MatchAt(sym, i)
    THEN LET i == CHOOSE x \in 1..Len(sym) :
                     MatchAt(sym, x) /\ \A y \in 1..Len(sym) : MatchAt(sym, y) => x <= y
         IN [_strike_num |-> SubSeq(sym, i, i + 4), _opt_type |-> SubSeq(sym, i + 5, i + 6)]
    ELSE [_strike_num |-> NaN, _opt_type |-> NaN]

\* ------------------------------------------------------------- the files
Row(sym, ts, o, h, l, c, v) ==
    [tradingsymbol |-> sym, timestamp |-> ts, open |-> o, high |-> h,
     low |-> l, close |-> c, volume |-> v]

PE24700 == <<"N", "2", "4", "2", "4", "7", "0", "0", "P", "E">>
CE24700 == <<"N", "2", "4", "2", "4", "7", "0", "0", "C", "E">>
PE09500 == <<"N", "2", "4", "0", "9", "5", "0", "0", "P", "E">>
FUT == <<"N", "2", "4", "F", "U", "T">>

\* the rows of nifty_data_04jul24.parquet
RowsJul04 ==
    << Row(PE24700, <<1, 9, 15>>, 100, 100, 100, 100, 1),
       Row(CE24700, <<1, 9, 15>>, 50, 52, 50, 51, 4),
       Row(PE24700, <<1, 9, 16>>, 101, 102, 101, 102, 2),
       Row(PE09500, <<1, 9, 15>>, 10, 11, 9, 10, 5),
       Row(FUT, <<1, 9, 15>>, 24000, 24010, 23990, 24005, 7),
       Row(PE24700, <<1, 9, 17>>, 102, 102, 101, 101, 3) >>

\* os.path.exists and the content of each file; a file that is not readable
\* makes the chunked read raise
Files ==
    (<<"04jul24", "parquet">> :> [readable |-> TRUE, rows |-> RowsJul04]) @@
    (<<"04jul24", "csv">> :> [readable |-> FALSE, rows |-> <<>>]) @@
    (<<"18jul24", "csv">> :> [readable |-> FALSE, rows |-> <<>>])

exists(expiry, ext) == <<lower(expiry), ext>> \in DOMAIN Files

\* pf.iter_batches(batch_size=chunksize) / pd.read_csv(chunksize=chunksize)
RECURSIVE Batches(_)
Batches(rows) ==
    IF Len(rows) <= chunksize THEN (IF rows = <<>> THEN <<>> ELSE <<rows>>)
    ELSE <<SubSeq(rows, 1, chunksize)>> \o Batches(SubSeq(rows, chunksize + 1, Len(rows)))

\* (chunk['_strike_num'] == strike_str) & (chunk['_opt_type'] == opt_type)
Matches(row, strike_str, opt_type) ==
    /\ extract(row.tradingsymbol)._strike_num = strike_str
    /\ extract(row.tradingsymbol)._opt_type = opt_type

matching_rows(chunk, strike_str, opt_type) ==
    LET P(row) == Matches(row, strike_str, opt_type) IN SelectSeq(chunk, P)

\* if not matching_rows.empty: filtered_chunks.append(matching_rows[COLS_TO_USE])
RECURSIVE FilterBatches(_, _, _)
FilterBatches(batches, strike_str, opt_type) ==
    IF batches = <<>> THEN <<>>
    ELSE LET m == matching_rows(batches[1], strike_str, opt_type)
         IN (IF m = <<>> THEN <<>> ELSE <<m>>)
            \o FilterBatches(Tail(batches), strike_str, opt_type)

\* ------------------------------------------------------ request.args
Get(args, name, default) == IF name \in DOMAIN args THEN args[name] ELSE default

\* not x, for x a str or None; empty is the empty string of the argument
Falsy(args, name, empty) == IF name \in DOMAIN args THEN args[name] = empty ELSE TRUE

S24700 == <<"2", "4", "7", "0", "0">>

\* the query strings the clients send
Requests ==
    { [k \in {} |-> ""],
      ("expiry" :> "04jul24"),
      ("expiry" :> "04jul24") @@ ("strike" :> <<"a", "b", "c">>),
      ("expiry" :> "04jul24") @@ ("strike" :> S24700),
      ("expiry" :> "04jul24") @@ ("strike" :> <<"0">> \o S24700),
      ("expiry" :> "04jul24") @@ ("strike" :> S24700) @@ ("timeframe" :> "3m"),
      ("expiry" :> "04jul24") @@ ("strike" :> S24700) @@ ("type" :> <<"c", "e">>),
      ("expiry" :> "04jul24") @@ ("strike" :> <<"9", "5", "0", "0">>),
      ("expiry" :> "18JUL24") @@ ("strike" :> S24700),
      ("expiry" :> "25jul24") @@ ("strike" :> S24700) }

\* timeframe = request.args.get('timeframe', '1m')
ArgTimeframe(args) == Get(args, "timeframe", "1m")

\* opt_type = request.args.get('type', 'PE').upper()
ArgOptType(args) == upper(Get(args, "type", <<"P", "E">>))

\* strike_str = str(int(strike))
StrikeStr(args) == str(int(args["strike"]))

\* the timeframe left out of the key
cache_key_mut(expiry, strike_str, opt_type, tf) == <<expiry, strike_str, opt_type>>

\* cache_key = (expiry, strike_str, opt_type, timeframe)
cache_key(expiry, strike_str, opt_type, tf) == <<expiry, strike_str, opt_type, tf>>

KeyOf(args) ==
    cache_key(args["expiry"], StrikeStr(args), ArgOptType(args), ArgTimeframe(args))

\* ------------------------------------------------------- resample_cache
\* the cache is the sequence of its items, least recently used first
contains(cache, key) == \E i \in 1..Len(cache) : cache[i].key = key

Without(cache, key) == LET P(e) == e.key # key IN SelectSeq(cache, P)

ValueOf(cache, key) ==
    LET i == CHOOSE x \in 1..Len(cache) : cache[x].key = key IN cache[i].value

\* resample_cache[key]: the item becomes the most recently used
getitem(cache, key) == Without(cache, key) \o <<[key |-> key, value |-> ValueOf(cache, key)]>>

\* resample_cache[key] = value: the least recently used items make room
setitem(cache, key, value) ==
    LET rest == Without(cache, key)
        kept == IF Len(rest) + 1 > maxsize
                THEN SubSeq(rest, Len(rest) + 2 - maxsize, Len(rest))
                ELSE rest
    IN kept \o <<[key |-> key, value |-> value]>>

\* ----------------------------------------------------------- responses
Response(kind, status, body) == [kind |-> kind, status |-> status, bars |-> body]

NoResponse == Response("none", 0, <<>>)

\* jsonify(result_dict)
Ok(result_dict) == Response("ok", 200, result_dict)

\* jsonify({"error": ...}), code
Error(kind, status) == Response(kind, status, <<>>)

\* an exception that leaves get_chart
Raised(exception) == Response(exception, 0, <<>>)

TypedErrors ==
    {"MissingParameter", "DatasetNotFound", "DatasetReadError", "NoMatchingData",
     "ConcatError", "ResampleFailure"}

Threads == {"t1", "t2"}

\* ---------------------------------------------------------------- state
VARIABLES
    df_slice,        \* resample_ohlcv: the slice passed in
    timeframe,       \* resample_ohlcv: the timeframe passed in
    today,           \* the day the process runs on
    bars,            \* resample_ohlcv: the records returned
    rpc,             \* "call" before resample_ohlcv runs, "returned" after
    resample_cache,  \* the LRU result cache
    handler,         \* per request thread: position in get_chart and its locals
    watch            \* history: one completed request, kept for comparison

rvars == <<df_slice, timeframe, today, bars, rpc>>
svars == <<resample_cache, handler, watch>>
vars == <<rvars, svars>>

Idle ==
    [pc |-> "idle", args |-> [k \in {} |-> ""], cache_key |-> <<>>,
     df_slice |-> <<>>, result_dict |-> <<>>, response |-> NoResponse,
     saw |-> FALSE, didRead |-> FALSE, wrote |-> FALSE, stored |-> <<>>,
     after |-> FALSE]

NoWatch == [set |-> FALSE, fp |-> <<>>, key |-> <<>>, response |-> NoResponse, intact |-> FALSE]

\* ------------------------------------------- resample_ohlcv as a machine
InitResample ==
    /\ df_slice \in Slices
    /\ timeframe \in RequestedTimeframes
    /\ today \in Todays
    /\ bars = <<>>
    /\ rpc = "call"
    /\ resample_cache = <<>>
    /\ handler = [t \in Threads |-> Idle]
    /\ watch = NoWatch

Return(result) ==
    /\ bars' = result
    /\ rpc' = "returned"
    /\ UNCHANGED <<df_slice, timeframe, today, svars>>

\* if df_slice.empty: return df_slice
ResampleEmpty ==
    /\ rpc = "call"
    /\ df_slice = <<>>
    /\ \E result \in resample_ohlcv(df_slice, timeframe, today) : Return(result)

\* if timeframe == '1m'
Resample1m ==
    /\ rpc = "call"
    /\ df_slice # <<>>
    /\ timeframe = "1m"
    /\ \E result \in resample_ohlcv(df_slice, timeframe, today) : Return(result)

\* if timeframe == '1D'
ResampleDaily ==
    /\ rpc = "call"
    /\ df_slice # <<>>
    /\ timeframe = "1D"
    /\ \E result \in resample_ohlcv(df_slice, timeframe, today) : Return(result)

\* the per-day resample loop
ResampleBins ==
    /\ rpc = "call"
    /\ df_slice # <<>>
    /\ timeframe \notin {"1m", "1D"}
    /\ \E result \in resample_ohlcv(df_slice, timeframe, today) : Return(result)

NextResample == ResampleEmpty \/ Resample1m \/ ResampleDaily \/ ResampleBins

SpecResample == InitResample /\ [][NextResample]_vars


\* ------------------------------------------------- get_chart as a machine
\* the request fingerprint (expiry, strike, option_type, timeframe), strike
\* in canonical decimal form
Fingerprint(args) ==
    <<args["expiry"], str(int(args["strike"])), ArgOptType(args), ArgTimeframe(args)>>

Init ==
    /\ df_slice = <<>>
    /\ timeframe = "1m"
    /\ today \in {3}
    /\ bars = <<>>
    /\ rpc = "unused"
    /\ resample_cache = <<>>
    /\ handler = [t \in Threads |-> Idle]
    /\ watch = NoWatch

\* thread t moves on; the cache and the history stay as they are
Step(t, h) ==
    /\ handler' = [handler EXCEPT ![t] = h]
    /\ UNCHANGED <<rvars, resample_cache, watch>>

\* thread t moves on and leaves the cache as c
StepCache(t, h, c) ==
    /\ handler' = [handler EXCEPT ![t] = [h EXCEPT !.wrote = @ \/ c # resample_cache]]
    /\ resample_cache' = c
    /\ watch' = [watch EXCEPT !.intact = @ /\ contains(c, watch.key)]
    /\ UNCHANGED rvars

Done(h, response) == [h EXCEPT !.pc = "done", !.response = response]

\* if not expiry: return jsonify({"error": "Expiry parameter is required"}), 400
MissingExpiry(t) ==
    /\ handler[t].pc = "idle"
    /\ \E args \in Requests :
          /\ Falsy(args, "expiry", "")
          /\ Step(t, Done([Idle EXCEPT !.args = args], Error("MissingParameter", 400)))

\* if not strike: return jsonify({"error": "Strike parameter required"}), 400
MissingStrike(t) ==
    /\ handler[t].pc = "idle"
    /\ \E args \in Requests :
          /\ ~Falsy(args, "expiry", "")
          /\ Falsy(args, "strike", <<>>)
          /\ Step(t, Done([Idle EXCEPT !.args = args], Error("MissingParameter", 400)))

\* strike_str = str(int(strike)) raises ValueError, outside every try block
StrikeNotInteger(t) ==
    /\ handler[t].pc = "idle"
    /\ \E args \in Requests :
          /\ ~Falsy(args, "expiry", "")
          /\ ~Falsy(args, "strike", <<>>)
          /\ ~IsIntLiteral(args["strike"])
          /\ Step(t, Done([Idle EXCEPT !.args = args], Raised("ValueError")))

\* cache_key = (expiry, strike_str, opt_type, timeframe)
MakeKey(t) ==
    /\ handler[t].pc = "idle"
    /\ \E args \in Requests :
          /\ ~Falsy(args, "expiry", "")
          /\ ~Falsy(args, "strike", <<>>)
          /\ IsIntLiteral(args["strike"])
          /\ Step(t, [Idle EXCEPT !.pc = "lookup", !.args = args,
                                  !.cache_key = KeyOf(args),
                                  !.after = watch.set /\ watch.fp = Fingerprint(args)])

\* if cache_key in resample_cache: true
LookupHit(t) ==
    /\ handler[t].pc = "lookup"
    /\ contains(resample_cache, handler[t].cache_key)
    /\ Step(t, [handler[t] EXCEPT !.pc = "hit", !.saw = TRUE])

\* if cache_key in resample_cache: false
LookupMiss(t) ==
    /\ handler[t].pc = "lookup"
    /\ ~contains(resample_cache, handler[t].cache_key)
    /\ Step(t, [handler[t] EXCEPT !.pc = "miss"])

\* return jsonify(resample_cache[cache_key])
ReturnCached(t) ==
    /\ handler[t].pc = "hit"
    /\ contains(resample_cache, handler[t].cache_key)
    /\ StepCache(t, Done(handler[t], Ok(ValueOf(resample_cache, handler[t].cache_key))),
                 getitem(resample_cache, handler[t].cache_key))

\* resample_cache[cache_key] raises KeyError: the item went between the
\* membership test and the read
CachedKeyGone(t) ==
    /\ handler[t].pc = "hit"
    /\ ~contains(resample_cache, handler[t].cache_key)
    /\ Step(t, Done(handler[t], Raised("KeyError")))

\* if os.path.exists(parquet_file) ... elif os.path.exists(csv_file) ...
read_mode(expiry) ==
    IF exists(expiry, "parquet") THEN "parquet"
    ELSE IF exists(expiry, "csv") THEN "csv"
    ELSE ""

FileOf(args) == Files[<<lower(args["expiry"]), read_mode(args["expiry"])>>]

\* the chunked read of either format: the matching rows of every batch
filtered_chunks(args) ==
    FilterBatches(Batches(FileOf(args).rows), StrikeStr(args), ArgOptType(args))

\* else: return jsonify({"error": f"File for expiry {expiry} not found"}), 404
FileNotFound(t) ==
    /\ handler[t].pc = "miss"
    /\ read_mode(handler[t].args["expiry"]) = ""
    /\ Step(t, Done(handler[t], Error("DatasetNotFound", 404)))

\* except Exception as e: return jsonify({"error": f"Error reading file: {e}"}), 500
ReadError(t) ==
    /\ handler[t].pc = "miss"
    /\ read_mode(handler[t].args["expiry"]) # ""
    /\ ~FileOf(handler[t].args).readable
    /\ Step(t, Done(handler[t], Error("DatasetReadError", 500)))

\* if not filtered_chunks: return jsonify({"error": "No data found ..."}), 404
NoData(t) ==
    /\ handler[t].pc = "miss"
    /\ read_mode(handler[t].args["expiry"]) # ""
    /\ FileOf(handler[t].args).readable
    /\ filtered_chunks(handler[t].args) = <<>>
    /\ Step(t, Done([handler[t] EXCEPT !.didRead = TRUE], Error("NoMatchingData", 404)))

\* the read found rows: filtered_chunks is not empty
ReadOk(t) ==
    /\ handler[t].pc = "miss"
    /\ read_mode(handler[t].args["expiry"]) # ""
    /\ FileOf(handler[t].args).readable
    /\ filtered_chunks(handler[t].args) # <<>>

\* pd.concat raises: return jsonify({"error": f"Error concatenating chunks: {e}"}), 500
ConcatError(t) ==
    /\ ReadOk(t)
    /\ Step(t, Done([handler[t] EXCEPT !.didRead = TRUE], Error("ConcatError", 500)))

\* the store placed ahead of the statement that raises
ResampleError_mut(t) ==
    /\ ReadOk(t)
    /\ StepCache(t, Done([handler[t] EXCEPT !.didRead = TRUE], Error("ResampleFailure", 500)),
                 setitem(resample_cache, handler[t].cache_key, <<>>))

\* resample_ohlcv or to_dict raises:
\* return jsonify({"error": f"Resample error: {e}"}), 500
ResampleError(t) ==
    /\ ReadOk(t)
    /\ Step(t, Done([handler[t] EXCEPT !.didRead = TRUE,
                                       !.df_slice = Concat(filtered_chunks(handler[t].args))],
                    Error("ResampleFailure", 500)))

\* df_slice = pd.concat(filtered_chunks, ignore_index=True)
\* resampled = resample_ohlcv(df_slice, timeframe); result_dict = resampled.to_dict(...)
Resampled(t) ==
    /\ ReadOk(t)
    /\ LET df == Concat(filtered_chunks(handler[t].args))
       IN \E result \in resample_ohlcv(df, ArgTimeframe(handler[t].args), today) :
             Step(t, [handler[t] EXCEPT !.pc = "store", !.didRead = TRUE,
                                        !.df_slice = df, !.result_dict = result])

\* resample_cache[cache_key] = result_dict; return jsonify(result_dict)
Store(t) ==
    /\ handler[t].pc = "store"
    /\ LET c == setitem(resample_cache, handler[t].cache_key, handler[t].result_dict)
       IN StepCache(t, Done([handler[t] EXCEPT
                                !.stored = IF contains(c, handler[t].cache_key)
                                           THEN ValueOf(c, handler[t].cache_key)
                                           ELSE <<>>],
                            Ok(handler[t].result_dict)),
                    c)

\* the response is sent and the thread takes the next request
Finish(t) ==
    /\ handler[t].pc = "done"
    /\ Step(t, Idle)

\* the same after a bar sequence was returned, and the history keeps this
\* request if it keeps none yet
FinishWatched(t) ==
    /\ handler[t].pc = "done"
    /\ handler[t].response.kind = "ok"
    /\ ~watch.set
    /\ handler' = [handler EXCEPT ![t] = Idle]
    /\ watch' = [set |-> TRUE, fp |-> Fingerprint(handler[t].args),
                 key |-> handler[t].cache_key, response |-> handler[t].response,
                 intact |-> contains(resample_cache, handler[t].cache_key)]
    /\ UNCHANGED <<rvars, resample_cache>>

Next ==
    \E t \in Threads :
       \/ MissingExpiry(t)
       \/ MissingStrike(t)
       \/ StrikeNotInteger(t)
       \/ MakeKey(t)
       \/ LookupHit(t)
       \/ LookupMiss(t)
       \/ ReturnCached(t)
       \/ CachedKeyGone(t)
       \/ FileNotFound(t)
       \/ ReadError(t)
       \/ NoData(t)
       \/ ConcatError(t)
       \/ ResampleError(t)
       \/ Resampled(t)
       \/ Store(t)
       \/ Finish(t)
       \/ FinishWatched(t)

Spec == Init /\ [][Next]_vars

\* ------------------------------------------- properties of resample_ohlcv
Returned == rpc = "returned"

\* minute of the day written in a timestamp string
ClockOf(ts) == ts[2] * 60 + ts[3]

\* the timestamp string is well formed and its time lies in 09:15 - 15:30
InWindow(ts) ==
    /\ to_datetime(ts) # NaT
    /\ ClockOf(ts) >= SessionStart
    /\ ClockOf(ts) <= SessionEnd

\* lexicographic order of timestamp strings
TsLess(a, b) ==
    \/ a[1] < b[1]
    \/ a[1] = b[1] /\ a[2] < b[2]
    \/ a[1] = b[1] /\ a[2] = b[2] /\ a[3] < b[3]

RECURSIVE VolumeOver(_)
VolumeOver(I) ==
    IF I = {} THEN 0
    ELSE LET i == CHOOSE x \in I : TRUE
         IN df_slice[i].volume + VolumeOver(I \ {i})

\* indices of the input candles in the bucket that starts at the bar's
\* timestamp: in session, on the bar's day, in [start, start + duration)
Bucket(bar) ==
    {i \in 1..Len(df_slice) :
        LET ts == df_slice[i].timestamp
        IN /\ InWindow(ts)
           /\ ts[1] = bar.timestamp[1]
           /\ \/ timeframe = "1D"
              \/ /\ ClockOf(ts) >= ClockOf(bar.timestamp)
                 /\ ClockOf(ts) < ClockOf(bar.timestamp) + TF_MAP[timeframe]}

ExampleSlice ==
    << Candle(<<1, 9, 15>>, 100, 100, 100, 100, 1),
       Candle(<<1, 9, 16>>, 101, 102, 101, 102, 2),
       Candle(<<1, 9, 17>>, 102, 102, 101, 101, 3) >>

ExampleBar == Candle(<<1, 9, 15>>, 100, 102, 100, 101, 6)

\* C2: for every timeframe coarser than 1m, each bar is the aggregate of its
\* bucket: open of a chronologically first candle, close of a last one, the
\* maximum high, the minimum low and the summed volume; buckets other than
\* 1D start a whole number of durations after 09:15; and the candles at
\* 09:15, 09:16, 09:17 resampled to 3m give the single bar at 09:15.
C2_BucketAggregation ==
    /\ (Returned /\ timeframe \in Timeframes \ {"1m"}) =>
          \A k \in 1..Len(bars) :
             LET bar == bars[k]
                 I == Bucket(bar)
                 At(i) == ClockOf(df_slice[i].timestamp)
             IN /\ I # {}
                /\ timeframe # "1D" =>
                      (ClockOf(bar.timestamp) - SessionStart) % TF_MAP[timeframe] = 0
                /\ \E i \in I : /\ \A j \in I : At(i) <= At(j)
                                /\ bar.open = df_slice[i].open
                /\ \E i \in I : /\ \A j \in I : At(i) >= At(j)
                                /\ bar.close = df_slice[i].close
                /\ \E i \in I : bar.high = df_slice[i].high
                /\ \A j \in I : df_slice[j].high <= bar.high
                /\ \E i \in I : bar.low = df_slice[i].low
                /\ \A j \in I : df_slice[j].low >= bar.low
                /\ bar.volume = VolumeOver(I)
    /\ (Returned /\ timeframe = "3m" /\ df_slice = ExampleSlice) =>
          bars = <<ExampleBar>>

C2_Witness ==
    /\ Returned
    /\ timeframe = "3m"
    /\ df_slice = ExampleSlice
    /\ bars = <<ExampleBar>>

\* the candles of the slice dated d, and the bars dated d
CandlesOn(d) ==
    LET P(c) == to_datetime(c.timestamp) # NaT /\ c.timestamp[1] = d
    IN SelectSeq(df_slice, P)

BarsOn(d) == LET P(b) == b.timestamp[1] = d IN SelectSeq(bars, P)

\* C3: no bar aggregates candles of two calendar days: for every timeframe
\* the bars dated d are exactly what the candles dated d alone resample to.
C3_NoCrossDayBar ==
    Returned =>
       \A k \in 1..Len(bars) :
          LET d == bars[k].timestamp[1]
          IN /\ CandlesOn(d) # <<>>
             /\ BarsOn(d) \in resample_ohlcv(CandlesOn(d), timeframe, today)

C3_Witness ==
    /\ Returned
    /\ timeframe = "1h"
    /\ Len(bars) = 2
    /\ bars[1].timestamp[1] # bars[2].timestamp[1]

\* the candles of the slice whose time lies in the session window
SessionCandles == LET P(c) == InWindow(c.timestamp) IN SelectSeq(df_slice, P)

\* C4 as stated: for every timeframe of the enumerated set, every bar's time
\* of day lies in 09:15 - 15:30.
C4_Original ==
    (Returned /\ timeframe \in Timeframes) =>
       \A k \in 1..Len(bars) : InWindow(bars[k].timestamp)

\* C4 amended: for every enumerated timeframe except 1D every bar's time of
\* day lies in 09:15 - 15:30, a 1D bar is stamped 00:00, and candles outside
\* the window never contribute: the slice without them resamples to the same bars.
C4_SessionWindow ==
    (Returned /\ timeframe \in Timeframes) =>
       /\ \A k \in 1..Len(bars) :
             IF timeframe = "1D"
             THEN ClockOf(bars[k].timestamp) = 0
             ELSE InWindow(bars[k].timestamp)
       /\ bars \in resample_ohlcv(SessionCandles, timeframe, today)

C4_Witness ==
    /\ Returned
    /\ timeframe = "15m"
    /\ Len(bars) >= 1
    /\ \E i \in 1..Len(df_slice) :
          /\ to_datetime(df_slice[i].timestamp) # NaT
          /\ ~InWindow(df_slice[i].timestamp)
          /\ df_slice[i].timestamp[1] = bars[1].timestamp[1]

\* C5 as stated: a timeframe outside the enumerated set gives the bars that
\* "1m" gives for the same slice.
C5_UnknownIsOneMinute ==
    (Returned /\ timeframe \notin Timeframes) =>
       bars \in resample_ohlcv(df_slice, "1m", today)

\* C6 as stated: for every enumerated timeframe the bars are strictly
\* ascending by timestamp, whatever the input.
C6_Original ==
    (Returned /\ timeframe \in Timeframes) =>
       \A k \in 1..(Len(bars) - 1) : TsLess(bars[k].timestamp, bars[k + 1].timestamp)

DistinctSessionTimestamps ==
    \A i, j \in 1..Len(SessionCandles) :
       SessionCandles[i].timestamp = SessionCandles[j].timestamp => i = j

\* C6 amended: for every enumerated timeframe the bars never descend; they
\* are strictly ascending for every timeframe but 1m, and for 1m when no two
\* in-session candles of the input share a timestamp.
C6_Ascending ==
    (Returned /\ timeframe \in Timeframes) =>
       \A k \in 1..(Len(bars) - 1) :
          /\ ~TsLess(bars[k + 1].timestamp, bars[k].timestamp)
          /\ (timeframe # "1m" \/ DistinctSessionTimestamps) =>
                TsLess(bars[k].timestamp, bars[k + 1].timestamp)

C6_Witness ==
    /\ Returned
    /\ timeframe = "1m"
    /\ Len(df_slice) >= 2
    /\ InWindow(df_slice[1].timestamp)
    /\ InWindow(df_slice[2].timestamp)
    /\ TsLess(df_slice[2].timestamp, df_slice[1].timestamp)
    /\ Len(bars) >= 2


\* ------------------------------------------------ properties of get_chart
Finished(t) == handler[t].pc = "done"

\* C1 as stated: once a request has returned its bars, every later request
\* with the same fingerprint returns the same result and reads no dataset
\* (later requests that end in an error or an exception are left aside).
C1_Original ==
    \A t \in Threads :
       (Finished(t) /\ handler[t].after /\ handler[t].response.kind = "ok") =>
          /\ handler[t].response = watch.response
          /\ ~handler[t].didRead

\* C1 amended: once a request has returned its bars, a later request with
\* the same fingerprint returns the same bars and reads no dataset, as long
\* as the entry has not been evicted from the cache in the meantime.
C1_CachedUntilEvicted ==
    \A t \in Threads :
       (Finished(t) /\ handler[t].after /\ watch.intact) =>
          /\ handler[t].response = watch.response
          /\ ~handler[t].didRead

C1_Witness ==
    \E t \in Threads :
       /\ Finished(t)
       /\ handler[t].after
       /\ watch.intact
       /\ handler[t].saw
       /\ handler[t].response.kind = "ok"
       /\ handler[t].response.bars # <<>>

\* C7 as stated: whatever the parameters and the files, a request ends in
\* bars or in one typed error; nothing parameter-level or file-level leaves
\* the handler as a raw exception.
C7_TypedOutcome ==
    \A t \in Threads :
       (Finished(t) /\ ~handler[t].saw) =>
          handler[t].response.kind \in TypedErrors \cup {"ok"}

\* C8 as stated: under every interleaving a request that saw its key in the
\* cache returns the stored bars and does not fail, and the cache stays
\* within its capacity.
C8_CacheSafe ==
    /\ Len(resample_cache) <= maxsize
    /\ \A t \in Threads :
          (Finished(t) /\ handler[t].saw) => handler[t].response.kind = "ok"

\* the row's symbol parses, and its strike and type equal the requested
\* ones, strikes compared as integers
IntegerMatch(row, args) ==
    LET x == extract(row.tradingsymbol)
    IN /\ x._strike_num # NaN
       /\ DigitsValue(x._strike_num) = int(args["strike"])
       /\ x._opt_type = ArgOptType(args)

\* C9 as stated: strikes that denote the same integer give the same
\* fingerprint, and the filter keeps exactly the rows whose parsed strike
\* equals the requested one as an integer and whose type is the requested one.
C9_CanonicalStrike ==
    /\ \A t, u \in Threads :
          (/\ handler[t].cache_key # <<>>
           /\ handler[u].cache_key # <<>>
           /\ handler[t].args["expiry"] = handler[u].args["expiry"]
           /\ ArgOptType(handler[t].args) = ArgOptType(handler[u].args)
           /\ ArgTimeframe(handler[t].args) = ArgTimeframe(handler[u].args)
           /\ int(handler[t].args["strike"]) = int(handler[u].args["strike"]))
          => handler[t].cache_key = handler[u].cache_key
    /\ \A t \in Threads :
          (handler[t].didRead /\ handler[t].response.kind # "ConcatError") =>
             handler[t].df_slice =
                LET P(row) == IntegerMatch(row, handler[t].args)
                IN SelectSeq(FileOf(handler[t].args).rows, P)

\* C10: a request that ends in an error never changed the cache; a request
\* changes the cache only as its last step before it returns bars, and after
\* a miss the value it left under its key is the bar sequence it returns.
C10_ErrorLeavesCache ==
    \A t \in Threads :
       /\ (Finished(t) /\ handler[t].response.kind # "ok") => ~handler[t].wrote
       /\ handler[t].wrote => (Finished(t) /\ handler[t].response.kind = "ok")
       /\ (Finished(t) /\ handler[t].response.kind = "ok" /\ ~handler[t].saw) =>
             handler[t].stored = handler[t].response.bars

C10_Witness ==
    /\ resample_cache # <<>>
    /\ \E t \in Threads :
          /\ Finished(t)
          /\ handler[t].response.kind = "ResampleFailure"
    /\ \E t \in Threads :
          /\ Finished(t)
          /\ handler[t].response.kind = "ok"
          /\ ~handler[t].saw

====
